---------------------------- MODULE Spec2Model ----------------------------
(***************************************************************************)
(* TabAlert (src/TabAlert/TabAlert.js): a controller that flashes the      *)
(* document title and/or the favicon of a browser tab.                     *)
(*                                                                         *)
(* The controller's closure variables, the host document (title, favicon   *)
(* link element) and the host's interval timers are the state.  Every      *)
(* JavaScript handler runs to completion, so alert(), stop(), one firing   *)
(* of an interval callback and one write of the host page are one action   *)
(* each.  The handlers are composed from operators on a state record, one  *)
(* operator per function of the source.                                    *)
(***************************************************************************)
EXTENDS Integers, Sequences, FiniteSets, TLC

(***************************************************************************)
(* Bounds of the model.                                                    *)
(***************************************************************************)
\* alert() is called at most MaxAlerts times in a behaviour
MaxAlerts == 2
\* args.times is drawn from 0 .. MaxTimes (or omitted)
MaxTimes == 2
\* tick steps counted since the most recent alert() call; enough for the
\* longest countdown (2 * MaxTimes ticks) and some ticks after it
MaxTicks == 2 * MaxTimes + 2

(***************************************************************************)
(* JavaScript values.  An optional argument is <<>> (undefined) or <<v>>. *)
(***************************************************************************)
Undefined == <<>>
Defined(x) == x # Undefined
Val(x) == x[1]

\* const DEFAULT_DELAY = 1000;
DEFAULT_DELAY == 1000

\* let intervalID;  (undefined until the first setInterval; the host's
\* interval ids are positive)
NoTimer == 0

\* const ICONS = { ... }: icon name -> glyph (glyphs named by code point)
ICONS ==
    [ n \in { "bellhop bell", "speech balloon", "police car light", "stop sign",
              "hour glass done", "alarm clock", "stopwatch", "timer clock", "star",
              "fire", "party popper", "bell", "envelope with arrow", "locked",
              "exclamation mark", "red circle" } |->
        CASE n = "bellhop bell" -> "U+1F6CE"
          [] n = "speech balloon" -> "U+1F4AC"
          [] n = "police car light" -> "U+1F6A8"
          [] n = "stop sign" -> "U+1F6D1"
          [] n = "hour glass done" -> "U+231B"
          [] n = "alarm clock" -> "U+23F0"
          [] n = "stopwatch" -> "U+23F1"
          [] n = "timer clock" -> "U+23F2"
          [] n = "star" -> "U+2B50"
          [] n = "fire" -> "U+1F525"
          [] n = "party popper" -> "U+1F389"
          [] n = "bell" -> "U+1F514"
          [] n = "envelope with arrow" -> "U+1F4E9"
          [] n = "locked" -> "U+1F512"
          [] n = "exclamation mark" -> "U+2757"
          [] n = "red circle" -> "U+1F534" ]

\* the initial value of alertIcon and originalIcon, and what
\* _getOriginalFavicon returns when there is no favicon element
EmptyIcon == [image |-> "", type |-> ""]

\* canvas.toDataURL('image/png') of the canvas the glyph was drawn on: a
\* non-empty data URI that depends on the glyph
toDataURL(str) == "data:image/png;base64," \o str

\* _createImageFromText(str)
_createImageFromText(str) == [image |-> toDataURL(str), type |-> "image/png"]

(***************************************************************************)
(* parseInt.  A delay argument is given by its string form, a sequence of  *)
(* characters (parseInt converts its argument to a string first, and       *)
(* undefined converts to "undefined").  parseInt skips leading white       *)
(* space, reads an optional sign and the longest prefix of decimal digits, *)
(* and yields NaN when there is no digit.  (A string with the prefix 0x,   *)
(* which parseInt reads as hexadecimal, is not among the inputs.)          *)
(***************************************************************************)
StringOf(opt) ==
    IF Defined(opt) THEN Val(opt)
    ELSE <<"u", "n", "d", "e", "f", "i", "n", "e", "d">>

DigitValue(c) ==
    CASE c = "0" -> 0 [] c = "1" -> 1 [] c = "2" -> 2 [] c = "3" -> 3
      [] c = "4" -> 4 [] c = "5" -> 5 [] c = "6" -> 6 [] c = "7" -> 7
      [] c = "8" -> 8 [] c = "9" -> 9 [] OTHER -> -1

IsDigit(c) == DigitValue(c) >= 0

RECURSIVE SkipSpace(_)
SkipSpace(str) ==
    IF str # <<>> /\ Head(str) = " " THEN SkipSpace(Tail(str)) ELSE str

RECURSIVE ReadDigits(_, _)
ReadDigits(str, acc) ==
    IF str # <<>> /\ IsDigit(Head(str))
    THEN ReadDigits(Tail(str), 10 * acc + DigitValue(Head(str)))
    ELSE acc

\* a parse that accepts only a string that is a number to its end
parseInt_strict(opt) ==
    LET s0 == SkipSpace(StringOf(opt))
        neg == s0 # <<>> /\ Head(s0) = "-"
        s1 == IF s0 # <<>> /\ Head(s0) \in {"-", "+"} THEN Tail(s0) ELSE s0
    IN  IF s1 = <<>> \/ \E i \in 1 .. Len(s1) : ~IsDigit(s1[i])
        THEN [nan |-> TRUE, val |-> 0]
        ELSE [nan |-> FALSE,
              val |-> IF neg THEN 0 - ReadDigits(s1, 0) ELSE ReadDigits(s1, 0)]

\* [nan |-> TRUE] is NaN
parseInt(opt) ==
    LET s0 == SkipSpace(StringOf(opt))
        neg == s0 # <<>> /\ Head(s0) = "-"
        s1 == IF s0 # <<>> /\ Head(s0) \in {"-", "+"} THEN Tail(s0) ELSE s0
    IN  IF s1 = <<>> \/ ~IsDigit(Head(s1))
        THEN [nan |-> TRUE, val |-> 0]
        ELSE [nan |-> FALSE,
              val |-> IF neg THEN 0 - ReadDigits(s1, 0) ELSE ReadDigits(s1, 0)]

isNaN(n) == n.nan

(***************************************************************************)
(* The inputs.                                                             *)
(***************************************************************************)
\* the title of the page when the controller is constructed
PageTitle == "Page"
\* titles the host page sets by itself
HostTitles == {"News"}
\* the page's own favicon, when it has a favicon link element
PageFavicon == [present |-> TRUE, href |-> "/favicon.ico", type |-> "image/x-icon"]
NoFavicon == [present |-> FALSE, href |-> "", type |-> ""]

Messages == {Undefined, <<"">>, <<"Done">>, <<"Hey">>}
IconNames == {Undefined, <<"bell">>, <<"no such icon">>}
Times == {Undefined} \cup {<<n>> : n \in 0 .. MaxTimes}
Delays == {Undefined, <<<<"5", "0", "0">>>>, <<<<"2", "5", "p", "x">>>>,
           <<<<"a", "b", "c">>>>, <<<<" ", "-", "7">>>>}

\* AlertConfig: the argument of alert().  No step of the controller reads the
\* delay and the model has no clock, so the configs of Spec leave the delay
\* out; the configs of SpecDelay vary it.
Configs == [message : Messages, icon : IconNames, times : Times,
            delay : {Undefined}]
DelayConfigs == [message : {Undefined, <<"Done">>}, icon : {Undefined, <<"bell">>},
                 times : {Undefined, <<1>>}, delay : Delays]

(***************************************************************************)
(* State.                                                                  *)
(***************************************************************************)
VARIABLES
    \* the controller's closure variables (lines 40-53)
    alertDelay, alertIcon, alertTitle, countdown, intervalID,
    originalIcon, originalTitle, showOriginal,
    \* window.top.document.title
    title,
    \* the link[rel="shortcut icon"] element: [present, href, type]
    favicon,
    \* the host's live intervals that run this controller's _timerEvent:
    \* a set of [id, delay]
    timers,
    \* the id the host's next setInterval returns
    nextTimerID,
    \* what the last step did: [op, title, favicon, stop, moved]: the operation,
    \* whether it wrote document.title, wrote the favicon attributes, ran
    \* stop(), and whether the displayed title is another than before the step
    fx,
    \* history: how many stop() calls ended the calls so far with nothing else
    \* between them (counted up to 2)
    stopRun,
    \* history: the argument of the most recent alert() call (<<>> before any)
    lastArgs,
    \* history: the document's title and favicon when the most recent alert()
    \* was called
    captured,
    \* history: whether a timer was live when the most recent alert() was called
    overlapped,
    \* history: tick steps since the most recent alert() call, its immediate
    \* one included
    ticks,
    \* history: stop() was called by the user / by a tick since the most
    \* recent alert() call
    userStopped, autoStopped,
    \* history: the host page wrote the title after the controller's last write
    hostDirty,
    \* the closure variables of a second controller, made by another call of
    \* the constructor on the same document, as a record
    peer,
    \* the host's live intervals that run the second controller's _timerEvent
    peerTimers

progVars == <<alertDelay, alertIcon, alertTitle, countdown, intervalID,
              originalIcon, originalTitle, showOriginal>>
hostVars == <<title, favicon, timers, nextTimerID>>
histVars == <<fx, stopRun, lastArgs, captured, overlapped, ticks,
              userStopped, autoStopped, hostDirty>>
peerVars == <<peer, peerTimers>>
vars == <<progVars, hostVars, histVars, peerVars>>

\* the state the handlers work on, as one record
Cur ==
    [ alertDelay |-> alertDelay, alertIcon |-> alertIcon, alertTitle |-> alertTitle,
      countdown |-> countdown, intervalID |-> intervalID,
      originalIcon |-> originalIcon, originalTitle |-> originalTitle,
      showOriginal |-> showOriginal,
      title |-> title, favicon |-> favicon, timers |-> timers,
      nextTimerID |-> nextTimerID,
      wroteTitle |-> FALSE, wroteFavicon |-> FALSE, ranStop |-> FALSE ]

\* the state a handler leaves
Becomes(s, op) ==
    /\ alertDelay' = s.alertDelay
    /\ alertIcon' = s.alertIcon
    /\ alertTitle' = s.alertTitle
    /\ countdown' = s.countdown
    /\ intervalID' = s.intervalID
    /\ originalIcon' = s.originalIcon
    /\ originalTitle' = s.originalTitle
    /\ showOriginal' = s.showOriginal
    /\ title' = s.title
    /\ favicon' = s.favicon
    /\ timers' = s.timers
    /\ nextTimerID' = s.nextTimerID
    /\ fx' = [op |-> op, title |-> s.wroteTitle, favicon |-> s.wroteFavicon,
              stop |-> s.ranStop, moved |-> (s.title # title)]
    /\ stopRun' = IF op # "stop" THEN 0 ELSE IF stopRun = 0 THEN 1 ELSE 2
    /\ hostDirty' = (hostDirty /\ ~s.wroteTitle)
    /\ UNCHANGED peerVars

(***************************************************************************)
(* The functions of the controller.                                        *)
(***************************************************************************)
\* window.clearInterval(id): no effect when id is no live interval
clearInterval(s, id) == [s EXCEPT !.timers = {t \in s.timers : t.id # id}]

\* intervalID = window.setInterval(() => { _timerEvent(); }, alertDelay)
setInterval(s) ==
    [s EXCEPT !.timers = s.timers \cup {[id |-> s.nextTimerID, delay |-> s.alertDelay]},
              !.intervalID = s.nextTimerID,
              !.nextTimerID = s.nextTimerID + 1]

\* _toggleFavicon without the check that the element was found
_toggleFavicon_noElementCheck(s) ==
    LET icon == IF s.showOriginal THEN s.originalIcon ELSE s.alertIcon
    IN  [s EXCEPT !.favicon = [present |-> s.favicon.present, href |-> icon.image,
                               type |-> icon.type],
                  !.wroteFavicon = TRUE]

_toggleFavicon(s) ==
    IF ~s.favicon.present THEN s
    ELSE LET icon == IF s.showOriginal THEN s.originalIcon ELSE s.alertIcon
         IN  [s EXCEPT !.favicon = [present |-> TRUE, href |-> icon.image,
                                    type |-> icon.type],
                       !.wroteFavicon = TRUE]

_toggleTitle(s) ==
    [s EXCEPT !.title = IF s.showOriginal THEN s.originalTitle ELSE s.alertTitle,
              !.wroteTitle = TRUE]

_getOriginalFavicon(s) ==
    IF s.favicon.present
    THEN [image |-> s.favicon.href, type |-> s.favicon.type]
    ELSE EmptyIcon

\* stop() that flips the flag instead of setting it
stop_flipping(s) ==
    LET s1 == clearInterval(s, s.intervalID)
        s2 == [s1 EXCEPT !.showOriginal = ~s.showOriginal, !.ranStop = TRUE]
    IN  _toggleTitle(_toggleFavicon(s2))

\* stop() that returns at once when no interval was ever started
stop_onlyAfterAlert(s) ==
    IF s.intervalID = NoTimer THEN [s EXCEPT !.ranStop = TRUE]
    ELSE LET s1 == clearInterval(s, s.intervalID)
             s2 == [s1 EXCEPT !.showOriginal = TRUE, !.ranStop = TRUE]
         IN  _toggleTitle(_toggleFavicon(s2))

\* publicObject.stop
stop(s) ==
    LET s1 == clearInterval(s, s.intervalID)
        s2 == [s1 EXCEPT !.showOriginal = TRUE, !.ranStop = TRUE]
    IN  _toggleTitle(_toggleFavicon(s2))

\* _timerEvent that stops when the countdown is 0 or below
_timerEvent_stopAtOrBelowZero(s) ==
    LET s1 == [s EXCEPT !.showOriginal = ~s.showOriginal,
                        !.countdown = s.countdown - 1]
        s2 == IF s1.countdown < -1 THEN [s1 EXCEPT !.countdown = -1] ELSE s1
        s3 == IF s2.countdown <= 0 THEN stop(s2) ELSE s2
        s4 == IF s3.alertIcon.image # "" THEN _toggleFavicon(s3) ELSE s3
    IN  IF s4.alertTitle # "" THEN _toggleTitle(s4) ELSE s4

\* _timerEvent that toggles the favicon whether or not an alert icon is set
_timerEvent_alwaysFavicon(s) ==
    LET s1 == [s EXCEPT !.showOriginal = ~s.showOriginal,
                        !.countdown = s.countdown - 1]
        s2 == IF s1.countdown < -1 THEN [s1 EXCEPT !.countdown = -1] ELSE s1
        s3 == IF s2.countdown = 0 THEN stop(s2) ELSE s2
        s4 == _toggleFavicon(s3)
    IN  IF s4.alertTitle # "" THEN _toggleTitle(s4) ELSE s4

\* _timerEvent that toggles the title whether or not an alert title is set
_timerEvent_alwaysTitle(s) ==
    LET s1 == [s EXCEPT !.showOriginal = ~s.showOriginal,
                        !.countdown = s.countdown - 1]
        s2 == IF s1.countdown < -1 THEN [s1 EXCEPT !.countdown = -1] ELSE s1
        s3 == IF s2.countdown = 0 THEN stop(s2) ELSE s2
        s4 == IF s3.alertIcon.image # "" THEN _toggleFavicon(s3) ELSE s3
    IN  _toggleTitle(s4)

\* _timerEvent that never calls stop()
_timerEvent_noStop(s) ==
    LET s1 == [s EXCEPT !.showOriginal = ~s.showOriginal,
                        !.countdown = s.countdown - 1]
        s2 == IF s1.countdown < -1 THEN [s1 EXCEPT !.countdown = -1] ELSE s1
        s4 == IF s2.alertIcon.image # "" THEN _toggleFavicon(s2) ELSE s2
    IN  IF s4.alertTitle # "" THEN _toggleTitle(s4) ELSE s4

\* _timerEvent without the clamp at -1
_timerEvent_noClamp(s) ==
    LET s2 == [s EXCEPT !.showOriginal = ~s.showOriginal,
                        !.countdown = s.countdown - 1]
        s3 == IF s2.countdown = 0 THEN stop(s2) ELSE s2
        s4 == IF s3.alertIcon.image # "" THEN _toggleFavicon(s3) ELSE s3
    IN  IF s4.alertTitle # "" THEN _toggleTitle(s4) ELSE s4

_timerEvent(s) ==
    LET s1 == [s EXCEPT !.showOriginal = ~s.showOriginal,
                        !.countdown = s.countdown - 1]
        s2 == IF s1.countdown < -1 THEN [s1 EXCEPT !.countdown = -1] ELSE s1
        s3 == IF s2.countdown = 0 THEN stop(s2) ELSE s2
        s4 == IF s3.alertIcon.image # "" THEN _toggleFavicon(s3) ELSE s3
    IN  IF s4.alertTitle # "" THEN _toggleTitle(s4) ELSE s4

\* _startTimer that leaves the first tick to the interval
_startTimer_noImmediateTick(s) ==
    setInterval([s EXCEPT !.showOriginal = TRUE])

_startTimer(s) ==
    _timerEvent(setInterval([s EXCEPT !.showOriginal = TRUE]))

\* lines 165-169
ResolveTitle(args) == IF Defined(args.message) THEN Val(args.message) ELSE ""

\* lines 170-175
ResolveIcon(args) ==
    IF Defined(args.icon) /\ Val(args.icon) \in DOMAIN ICONS
    THEN _createImageFromText(ICONS[Val(args.icon)])
    ELSE EmptyIcon

\* the countdown without the doubling
ResolveCountdown_notDoubled(args) ==
    IF Defined(args.times) THEN Val(args.times) ELSE 0

\* lines 176-180
ResolveCountdown(args) == IF Defined(args.times) THEN Val(args.times) * 2 ELSE 0

\* lines 181-186
ResolveDelay(args) ==
    LET d == parseInt(args.delay)
    IN  IF ~isNaN(d) THEN d.val ELSE DEFAULT_DELAY

\* alert() that captures the originals only while the original is shown
alert_captureOnlyAtRest(s, args) ==
    _startTimer([s EXCEPT !.originalTitle =
                              IF s.showOriginal THEN s.title ELSE s.originalTitle,
                          !.originalIcon =
                              IF s.showOriginal THEN _getOriginalFavicon(s)
                              ELSE s.originalIcon,
                          !.alertTitle = ResolveTitle(args),
                          !.alertIcon = ResolveIcon(args),
                          !.countdown = ResolveCountdown(args),
                          !.alertDelay = ResolveDelay(args)])

\* alert() that keeps the previous value of a field the config omits
alert_mergeConfig(s, args) ==
    _startTimer([s EXCEPT !.originalTitle = s.title,
                          !.originalIcon = _getOriginalFavicon(s),
                          !.alertTitle = IF Defined(args.message)
                                         THEN Val(args.message) ELSE s.alertTitle,
                          !.alertIcon = IF Defined(args.icon)
                                        THEN ResolveIcon(args) ELSE s.alertIcon,
                          !.countdown = ResolveCountdown(args),
                          !.alertDelay = IF Defined(args.delay)
                                         THEN ResolveDelay(args) ELSE s.alertDelay])

\* publicObject.alert
alert(s, args) ==
    _startTimer([s EXCEPT !.originalTitle = s.title,
                          !.originalIcon = _getOriginalFavicon(s),
                          !.alertTitle = ResolveTitle(args),
                          !.alertIcon = ResolveIcon(args),
                          !.countdown = ResolveCountdown(args),
                          !.alertDelay = ResolveDelay(args)])

(***************************************************************************)
(* The state machine.                                                      *)
(***************************************************************************)
Init ==
    /\ alertDelay = DEFAULT_DELAY
    /\ alertIcon = EmptyIcon
    /\ alertTitle = ""
    /\ countdown = -1
    /\ intervalID = NoTimer
    /\ originalIcon = EmptyIcon
    /\ title = PageTitle
    /\ originalTitle = title
    /\ showOriginal = TRUE
    /\ favicon \in {PageFavicon, NoFavicon}
    /\ timers = {}
    /\ nextTimerID = 1
    /\ fx = [op |-> "init", title |-> FALSE, favicon |-> FALSE, stop |-> FALSE,
             moved |-> FALSE]
    /\ stopRun = 0
    /\ lastArgs = Undefined
    /\ captured = [title |-> title, icon |-> EmptyIcon]
    /\ overlapped = FALSE
    /\ ticks = 0
    /\ userStopped = FALSE
    /\ autoStopped = FALSE
    /\ hostDirty = FALSE
    /\ peer = [alertDelay |-> DEFAULT_DELAY, alertIcon |-> EmptyIcon,
               alertTitle |-> "", countdown |-> -1, intervalID |-> NoTimer,
               originalIcon |-> EmptyIcon, originalTitle |-> title,
               showOriginal |-> TRUE]
    /\ peerTimers = {}

\* the caller calls alert(args)
Alert(args) ==
    /\ nextTimerID <= MaxAlerts
    /\ LET s == alert(Cur, args)
       IN  /\ Becomes(s, "alert")
           /\ autoStopped' = s.ranStop
    /\ lastArgs' = <<args>>
    /\ captured' = [title |-> title, icon |-> _getOriginalFavicon(Cur)]
    /\ overlapped' = (timers # {})
    /\ ticks' = 1
    /\ userStopped' = FALSE

\* the caller calls stop()
Stop ==
    /\ Becomes(stop(Cur), "stop")
    /\ userStopped' = TRUE
    /\ UNCHANGED <<lastArgs, captured, overlapped, ticks, autoStopped>>

\* the host fires live interval t: its callback runs _timerEvent
TimerFire(t) ==
    /\ t \in timers
    /\ ticks < MaxTicks
    /\ LET s == _timerEvent(Cur)
       IN  /\ Becomes(s, "tick")
           /\ autoStopped' = (autoStopped \/ s.ranStop)
    /\ ticks' = ticks + 1
    /\ UNCHANGED <<lastArgs, captured, overlapped, userStopped>>

\* the host page sets document.title itself
HostSetTitle(t) ==
    /\ t # title
    /\ title' = t
    /\ fx' = [op |-> "host", title |-> FALSE, favicon |-> FALSE, stop |-> FALSE,
              moved |-> TRUE]
    /\ stopRun' = 0
    /\ hostDirty' = TRUE
    /\ UNCHANGED <<progVars, favicon, timers, nextTimerID, lastArgs, captured,
                   overlapped, ticks, userStopped, autoStopped, peerVars>>

Next ==
    \/ \E args \in Configs : Alert(args)
    \/ Stop
    \/ \E t \in timers : TimerFire(t)
    \/ \E t \in HostTitles : HostSetTitle(t)

Spec == Init /\ [][Next]_vars

\* the same machine, with alert() given the configs that vary the delay
NextDelay ==
    \/ \E args \in DelayConfigs : Alert(args)
    \/ Stop
    \/ \E t \in timers : TimerFire(t)
    \/ \E t \in HostTitles : HostSetTitle(t)

SpecDelay == Init /\ [][NextDelay]_vars

(***************************************************************************)
(* Two controllers on one document.  Each call of the constructor function *)
(* (line 17) declares its own closure variables (lines 40-53); the         *)
(* document and the host's interval ids are shared.  Closure(i) is the     *)
(* set of variables the functions of controller i work on.                 *)
(***************************************************************************)
\* one set of variables for every controller, as if the module held them
Closure_shared(i) == 1

Closure(i) == i

\* the state the second controller's handlers work on
PeerCur ==
    [ alertDelay |-> peer.alertDelay, alertIcon |-> peer.alertIcon,
      alertTitle |-> peer.alertTitle, countdown |-> peer.countdown,
      intervalID |-> peer.intervalID, originalIcon |-> peer.originalIcon,
      originalTitle |-> peer.originalTitle, showOriginal |-> peer.showOriginal,
      title |-> title, favicon |-> favicon, timers |-> peerTimers,
      nextTimerID |-> nextTimerID,
      wroteTitle |-> FALSE, wroteFavicon |-> FALSE, ranStop |-> FALSE ]

PeerView == IF Closure(2) = 2 THEN PeerCur ELSE Cur

\* the state a handler of the second controller leaves
PeerBecomes(s, op) ==
    /\ IF Closure(2) = 2
       THEN /\ peer' = [alertDelay |-> s.alertDelay, alertIcon |-> s.alertIcon,
                        alertTitle |-> s.alertTitle, countdown |-> s.countdown,
                        intervalID |-> s.intervalID,
                        originalIcon |-> s.originalIcon,
                        originalTitle |-> s.originalTitle,
                        showOriginal |-> s.showOriginal]
            /\ peerTimers' = s.timers
            /\ UNCHANGED <<progVars, timers>>
       ELSE /\ alertDelay' = s.alertDelay
            /\ alertIcon' = s.alertIcon
            /\ alertTitle' = s.alertTitle
            /\ countdown' = s.countdown
            /\ intervalID' = s.intervalID
            /\ originalIcon' = s.originalIcon
            /\ originalTitle' = s.originalTitle
            /\ showOriginal' = s.showOriginal
            /\ timers' = s.timers
            /\ UNCHANGED peerVars
    /\ title' = s.title
    /\ favicon' = s.favicon
    /\ nextTimerID' = s.nextTimerID
    /\ fx' = [op |-> op, title |-> s.wroteTitle, favicon |-> s.wroteFavicon,
              stop |-> s.ranStop, moved |-> (s.title # title)]
    /\ stopRun' = 0
    /\ hostDirty' = (hostDirty \/ s.wroteTitle)
    /\ UNCHANGED <<lastArgs, captured, overlapped, ticks, userStopped, autoStopped>>

\* the caller calls alert(args) of the second controller
PeerAlert(args) ==
    /\ nextTimerID <= MaxAlerts
    /\ PeerBecomes(alert(PeerView, args), "peer alert")

\* the caller calls stop() of the second controller
PeerStop == PeerBecomes(stop(PeerView), "peer stop")

\* the host fires live interval t of the second controller
PeerTimerFire(t) ==
    /\ t \in peerTimers
    /\ PeerBecomes(_timerEvent(PeerView), "peer tick")

TwoConfigs == [message : {Undefined, <<"Done">>}, icon : {Undefined, <<"bell">>},
               times : {Undefined, <<1>>}, delay : {Undefined}]

\* both controllers at work (the host page's own title writes left out)
NextTwo ==
    \/ \E args \in TwoConfigs : Alert(args)
    \/ Stop
    \/ \E t \in timers : TimerFire(t)
    \/ \E args \in TwoConfigs : PeerAlert(args)
    \/ PeerStop
    \/ \E t \in peerTimers : PeerTimerFire(t)

SpecTwo == Init /\ [][NextTwo]_vars

(***************************************************************************)
(* What the claims speak of.                                               *)
(***************************************************************************)
\* the favicon the document shows, read the way alert() reads it
DisplayedFavicon == _getOriginalFavicon(Cur)
\* alert() has been called; Args is the config of the most recent call
Alerted == Defined(lastArgs)
Args == Val(lastArgs)
\* stop() has returned since the most recent alert() call (or since
\* construction), called by the user or by a tick
StopReturned == userStopped \/ autoStopped
\* the interval the stored handle refers to is live
LiveTimer == \E t \in timers : t.id = intervalID
\* the last step ran a tick step: alert() runs one, a timer firing is one
Ticked == fx.op \in {"alert", "tick"}
\* the config asks for no favicon toggling
IconOff(args) == ~Defined(args.icon) \/ Val(args.icon) \notin DOMAIN ICONS

(***************************************************************************)
(* C1: once stop() has returned after an alert() call, the displayed title *)
(* and favicon are the ones captured at the most recent alert() call, and  *)
(* they stay so until the next alert() call (writes of the host page set   *)
(* aside).                                                                 *)
(***************************************************************************)
C1_StopRestoresCaptured ==
    (Alerted /\ StopReturned /\ ~hostDirty) =>
        /\ title = captured.title
        /\ DisplayedFavicon = captured.icon

(***************************************************************************)
(* C2: alert() with times = n >= 1 and a non-empty message, called when no *)
(* timer is live and followed by no other call, performs exactly 2n tick   *)
(* steps before the auto-stop, which happens on tick 2n; after tick k the  *)
(* title is the message for odd k and the original for even k.             *)
(***************************************************************************)
C2_Case ==
    /\ Alerted
    /\ ~overlapped
    /\ ~userStopped
    /\ Defined(Args.times) /\ Val(Args.times) >= 1
    /\ Defined(Args.message) /\ Val(Args.message) # ""

C2_ExactlyTwoNHalfToggles ==
    C2_Case =>
        LET n == Val(Args.times)
        IN  /\ ticks <= 2 * n
            /\ autoStopped <=> (ticks = 2 * n)
            /\ (timers # {}) <=> (ticks < 2 * n)
            /\ Ticked =>
                  title = IF ticks % 2 = 1 THEN Val(Args.message)
                          ELSE captured.title

C2_Witness ==
    /\ C2_Case
    /\ Val(Args.times) = 2
    /\ ticks = 4
    /\ fx.op = "tick"
    /\ autoStopped
    /\ title = captured.title

(***************************************************************************)
(* C3: after alert() with times omitted no tick triggers the automatic     *)
(* stop: until stop() is called, after any number of ticks the stored      *)
(* timer is live and the display alternates.                               *)
(***************************************************************************)
C3_Case == Alerted /\ ~Defined(Args.times) /\ ~userStopped

C3_UnboundedNeverAutoStops ==
    C3_Case =>
        /\ ~autoStopped
        /\ LiveTimer
        /\ showOriginal <=> (ticks % 2 = 0)
        /\ (Ticked /\ Defined(Args.message) /\ Val(Args.message) # "") =>
              title = IF ticks % 2 = 1 THEN Val(Args.message)
                      ELSE captured.title

C3_Witness ==
    /\ C3_Case
    /\ ticks = MaxTicks
    /\ fx.op = "tick"
    /\ Defined(Args.message) /\ Val(Args.message) # ""
    /\ LiveTimer

(***************************************************************************)
(* C4: after stop() has returned, called by the user or by a tick, no tick *)
(* step fires until the next alert() call.                                 *)
(***************************************************************************)
C4_NoTickAfterStop ==
    [][StopReturned => ~(fx'.op = "tick" /\ ticks' = ticks + 1)]_vars

(***************************************************************************)
(* C5: a controller has at most one live recurring timer, and it is the    *)
(* one the stored handle refers to (alert() cancels the previous timer     *)
(* before it installs the new one).                                        *)
(***************************************************************************)
C5_AtMostOneLiveTimer ==
    /\ Cardinality(timers) <= 1
    /\ \A t \in timers : t.id = intervalID

(***************************************************************************)
(* C6: in every state in which the controller has no live timer, the       *)
(* initial state included, showOriginal is true and the displayed title    *)
(* and favicon are the stored originals (writes of the host page set       *)
(* aside).                                                                 *)
(***************************************************************************)
C6_IdleShowsOriginal ==
    (timers = {} /\ ~hostDirty) =>
        /\ showOriginal
        /\ title = originalTitle
        /\ DisplayedFavicon = originalIcon

(***************************************************************************)
(* C7: after alert() with the icon omitted or not in the catalog, no tick  *)
(* step writes a favicon attribute, the tick on which the countdown        *)
(* expires included.                                                       *)
(***************************************************************************)
C7_Case == Alerted /\ IconOff(Args) /\ Ticked

C8_Case == Alerted /\ ~Defined(Args.message) /\ Ticked

C8_NoTitleWriteOnAnyTick == C8_Case => ~fx.title

(***************************************************************************)
(* C8 as amended: with the message omitted, a tick step neither writes nor *)
(* changes the document title unless it is the tick on which the countdown *)
(* reaches 0; that tick runs stop(), which writes the stored original      *)
(* title over whatever the host shows.                                     *)
(***************************************************************************)
C8_NoTitleWriteUnlessExpiry ==
    C8_Case =>
        /\ ~fx.stop => (~fx.title /\ ~fx.moved)
        /\ fx.stop => (fx.title /\ title = originalTitle)

C8_Witness ==
    /\ C8_Case
    /\ fx.op = "tick"
    /\ ~fx.stop
    /\ hostDirty
    /\ title # originalTitle

(***************************************************************************)
(* C9: stop() called right after stop(), with no alert(), tick or host     *)
(* write between, changes no state of the controller and nothing the       *)
(* document displays.                                                      *)
(***************************************************************************)
C9_StopIdempotent ==
    [][(fx.op = "stop" /\ fx'.op = "stop") => UNCHANGED <<progVars, hostVars>>]_vars

C9_Witness ==
    /\ stopRun = 2
    /\ Alerted
    /\ favicon.present
    /\ fx.title /\ fx.favicon

(***************************************************************************)
(* C10: stop() before any alert() call starts no timer and sets the        *)
(* displayed title and favicon to the initial stored originals: the title  *)
(* read at construction and the empty icon.                                *)
(***************************************************************************)
C10_Case == fx.op = "stop" /\ ~Alerted

C10_StopBeforeAlert ==
    C10_Case =>
        /\ title = PageTitle
        /\ DisplayedFavicon = EmptyIcon
        /\ timers = {} /\ nextTimerID = 1 /\ intervalID = NoTimer
        /\ originalTitle = PageTitle /\ originalIcon = EmptyIcon

C10_Witness ==
    /\ C10_Case
    /\ fx.moved
    /\ favicon.present
    /\ favicon.href = ""

(***************************************************************************)
(* What the later claims speak of.                                         *)
(***************************************************************************)
\* the config gives a message that is not empty
HasMessage(args) == Defined(args.message) /\ Val(args.message) # ""
\* the config names an icon of the catalog
HasIcon(args) == Defined(args.icon) /\ Val(args.icon) \in DOMAIN ICONS

(***************************************************************************)
(* C11: with no favicon link element in the document, alert() with a       *)
(* message and a catalog icon stores the empty originalIcon, no tick and   *)
(* no stop() writes a favicon attribute, and the title follows the same    *)
(* rule as with a favicon element: after a tick it is the alert message or *)
(* the original as showOriginal says, after stop() it is the original.     *)
(***************************************************************************)
C11_Case == Alerted /\ HasMessage(Args) /\ HasIcon(Args)

C11_NoFaviconElement ==
    C11_Case =>
        /\ ~favicon.present =>
              /\ favicon = NoFavicon
              /\ originalIcon = EmptyIcon
              /\ ~fx.favicon
        /\ Ticked =>
              title = IF showOriginal THEN captured.title ELSE Val(Args.message)
        /\ (Ticked /\ ~overlapped /\ ~userStopped) =>
              (showOriginal <=> (ticks % 2 = 0))
        /\ fx.op = "stop" => title = captured.title

C11_Witness ==
    /\ C11_Case
    /\ ~favicon.present
    /\ fx.op = "tick"
    /\ ticks = 3
    /\ title = Val(Args.message)
    /\ alertIcon.image # ""

(***************************************************************************)
(* C14: alert() stores as originals what the document displays when it is  *)
(* called, whatever was stored before: called while the previous alert's   *)
(* message is displayed, it makes that message originalTitle, and a        *)
(* following stop() leaves that message displayed.                         *)
(***************************************************************************)
C14_CapturesWhatIsDisplayed ==
    /\ fx.op = "alert" =>
          /\ originalTitle = captured.title
          /\ originalIcon = captured.icon
    /\ (fx.op = "stop" /\ Alerted) =>
          /\ originalTitle = captured.title
          /\ title = captured.title

C14_Witness ==
    /\ fx.op = "stop"
    /\ Alerted
    /\ overlapped
    /\ captured.title \in {"Done", "Hey"}
    /\ title = captured.title
    /\ originalTitle # PageTitle

(***************************************************************************)
(* C15: a tick step never increases the countdown, and a tick step that    *)
(* brings it to exactly 0 runs stop() in that same tick: when the tick is  *)
(* over the stored handle's timer is cancelled, showOriginal is true and   *)
(* the displayed title and favicon are the originals.                      *)
(***************************************************************************)
C15_ZeroStopsInSameTick ==
    [][(fx'.op = "tick" /\ ticks' = ticks + 1) =>
          /\ countdown' <= countdown
          /\ countdown' = 0 =>
                /\ fx'.stop
                /\ ~LiveTimer'
                /\ showOriginal'
                /\ title' = originalTitle'
                /\ DisplayedFavicon' = originalIcon']_vars

C15_Witness ==
    /\ fx.op = "tick"
    /\ countdown = 0
    /\ fx.stop
    /\ timers # {}
    /\ userStopped
    /\ favicon.present
    /\ alertTitle # ""

(***************************************************************************)
(* C16: alert() runs exactly one tick step before it returns: for a config *)
(* with a non-empty message and times >= 1 or omitted, when alert()        *)
(* returns showOriginal is false, the displayed title is the alert         *)
(* message, the countdown has been decremented once and the timer is live. *)
(***************************************************************************)
C16_Case ==
    /\ fx.op = "alert"
    /\ HasMessage(Args)
    /\ ~Defined(Args.times) \/ Val(Args.times) >= 1

C16_ImmediateTick ==
    C16_Case =>
        /\ ~showOriginal
        /\ title = Val(Args.message)
        /\ fx.title
        /\ LiveTimer
        /\ countdown = IF Defined(Args.times) THEN 2 * Val(Args.times) - 1 ELSE -1

C16_Witness ==
    /\ C16_Case
    /\ Defined(Args.times)
    /\ overlapped
    /\ title # captured.title

(***************************************************************************)
(* C18: when the most recent alert() call was given times = n >= 1 and no  *)
(* stop() or alert() call follows it, the controller comes to rest: once   *)
(* the 2n ticks of that alert have run, none of its timers is live and the *)
(* displayed title and favicon are the originals (writes of the host page  *)
(* set aside), also when that alert() was called while an earlier alert    *)
(* was active.                                                             *)
(***************************************************************************)
C18_Case ==
    /\ Alerted
    /\ Defined(Args.times) /\ Val(Args.times) >= 1
    /\ ~userStopped

C18_BoundedAlertComesToRest ==
    (C18_Case /\ ticks >= 2 * Val(Args.times)) =>
        /\ timers = {}
        /\ ~hostDirty =>
              /\ title = originalTitle
              /\ DisplayedFavicon = originalIcon

(***************************************************************************)
(* C19: alert() with times = 0 behaves as alert() with times omitted: in   *)
(* every state the two calls leave the same state; the countdown starts at *)
(* 0, the immediate tick takes it to -1 without the automatic stop, and    *)
(* the alert goes on flashing until stop() is called.                      *)
(***************************************************************************)
C19_Case ==
    /\ Alerted
    /\ Defined(Args.times) /\ Val(Args.times) = 0
    /\ ~userStopped

C20_CountdownFloor ==
    /\ [](countdown >= -1)
    /\ [][(countdown = -1 /\ fx'.op # "alert") => countdown' = -1]_vars

C20_Witness ==
    /\ countdown = -1
    /\ fx.op = "tick"
    /\ ticks = MaxTicks
    /\ Alerted /\ Defined(Args.times) /\ Val(Args.times) = MaxTimes

(***************************************************************************)
(* The delay alert() is to store for each delay argument of Delays: the    *)
(* integer the argument starts with, or the default.                       *)
(***************************************************************************)
ExpectedDelay(d) ==
    CASE d = Undefined -> 1000
      [] d = <<<<"5", "0", "0">>>> -> 500
      [] d = <<<<"2", "5", "p", "x">>>> -> 25
      [] d = <<<<"a", "b", "c">>>> -> 1000
      [] d = <<<<" ", "-", "7">>>> -> 0 - 7

(***************************************************************************)
(* C13: alert(config2) called while an earlier alert is active sets every  *)
(* configuration field from config2 alone, an omitted field to its         *)
(* default, and restarts with one immediate tick: when it returns          *)
(* showOriginal is false and the countdown is 2 * times - 1, or -1 when    *)
(* times is omitted.                                                       *)
(***************************************************************************)
C13_Case == fx.op = "alert" /\ overlapped

C13_SecondAlertOverwrites ==
    C13_Case =>
        /\ alertTitle = IF Defined(Args.message) THEN Val(Args.message) ELSE ""
        /\ alertIcon = IF HasIcon(Args)
                       THEN [image |-> toDataURL(ICONS[Val(Args.icon)]),
                             type |-> "image/png"]
                       ELSE EmptyIcon
        /\ alertDelay = ExpectedDelay(Args.delay)
        /\ countdown = IF Defined(Args.times) THEN 2 * Val(Args.times) - 1 ELSE -1
        /\ ~showOriginal
        /\ ticks = 1
        /\ LiveTimer

C13_Witness ==
    /\ C13_Case
    /\ Args = [message |-> Undefined, icon |-> Undefined, times |-> Undefined,
               delay |-> Undefined]
    /\ \E t \in timers : t.delay = 500
    /\ title = "Done"
    /\ favicon.present /\ favicon.href # "/favicon.ico"
    /\ alertDelay = 1000

(***************************************************************************)
(* C17: after alert(config) the stored alertDelay is config.delay parsed   *)
(* as an integer when the parse yields a number and the default 1000       *)
(* otherwise, whatever delay an earlier alert() used, and it is the        *)
(* interval the timer of that alert() was started with.                    *)
(***************************************************************************)
C17_DelayResolved ==
    Alerted =>
        /\ alertDelay = ExpectedDelay(Args.delay)
        /\ \A t \in timers : t.id = intervalID => t.delay = alertDelay
        /\ fx.op = "alert" => LiveTimer

C17_Witness ==
    /\ fx.op = "alert"
    /\ overlapped
    /\ Args.delay = <<<<"a", "b", "c">>>>
    /\ alertDelay = 1000
    /\ \E t \in timers : t.delay = 25

(***************************************************************************)
(* C12: with two controllers on one document, alert(), stop() and a tick   *)
(* of one leave the other's state unchanged: its closure variables (timer  *)
(* handle, originals, alert values, countdown, showOriginal) and its live  *)
(* timers.                                                                 *)
(***************************************************************************)
C12_InstancesDoNotInterfere ==
    [][/\ fx'.op \in {"alert", "stop", "tick"} => UNCHANGED peerVars
       /\ fx'.op \in {"peer alert", "peer stop", "peer tick"} =>
             UNCHANGED <<progVars, timers>>]_vars

C12_Witness ==
    /\ fx.op = "peer tick"
    /\ fx.title
    /\ timers # {}
    /\ peerTimers # {}
    /\ peer.alertTitle # alertTitle
    /\ peer.originalTitle # originalTitle

=============================================================================
